---- MODULE Spec2Model ----
(***************************************************************************)
(* pyaraucaria: sexagesimal/decimal coordinate conversion                  *)
(* (src/pyaraucaria/coordinates.py) and the header assembly of             *)
(* save_fits_from_array (src/pyaraucaria/fits.py).                         *)
(*                                                                         *)
(* Strings are sequences of one-character strings.  Python floats are      *)
(* modelled by exact rationals: a non-negative real is a mixed number      *)
(* [ip, n, d] = ip + n/d with 0 <= n < d in lowest terms, a signed real is *)
(* [neg, mag].  Python's round() and its 'f' formatting round the float    *)
(* they are given to the nearest decimal.  Where the exact value is half   *)
(* way between two decimals the float is not (or is, and the tie goes to   *)
(* even): the model allows both neighbours there, see tieUp.               *)
(***************************************************************************)
EXTENDS Integers, Sequences, FiniteSets, TLC

(***************************************************************************)
(* Bounds of the model.                                                    *)
(***************************************************************************)
\* longest string of the exhaustive family of parser inputs
MaxLen == 5
\* most fractional digits of a bare decimal input
MaxFrac == 7
\* steps of the input grid below one thousandth of a second
SubMilli == 3
\* largest precision the formatter is called with
MaxPrecision == 4
\* most keys of a header dict
MaxKeys == 2

(***************************************************************************)
(* Characters and strings.                                                 *)
(***************************************************************************)
Digits == <<"0", "1", "2", "3", "4", "5", "6", "7", "8", "9">>

IsDigit(c) == \E i \in 1..10 : Digits[i] = c

DigitVal(c) == (CHOOSE i \in 1..10 : Digits[i] = c) - 1

RECURSIVE NatStr(_)
\* str(n) for a non-negative integer
NatStr(n) == IF n < 10 THEN <<Digits[n + 1]>>
             ELSE NatStr(n \div 10) \o <<Digits[(n % 10) + 1]>>

RECURSIVE NatVal(_)
\* int(s) for a string of decimal digits ("" counts as 0)
NatVal(s) == IF s = <<>> THEN 0
             ELSE 10 * NatVal(SubSeq(s, 1, Len(s) - 1)) + DigitVal(s[Len(s)])

RECURSIVE ZeroPad(_, _)
\* zero fill on the left up to a minimum width (format flag 0<width>)
ZeroPad(s, width) == IF Len(s) >= width THEN s ELSE ZeroPad(<<"0">> \o s, width)

RECURSIVE Pow10(_)
Pow10(k) == IF k = 0 THEN 1 ELSE 10 * Pow10(k - 1)

(***************************************************************************)
(* Exact arithmetic on mixed numbers.                                      *)
(***************************************************************************)
RECURSIVE GCD(_, _)
GCD(a, b) == IF b = 0 THEN a ELSE GCD(b, a % b)

\* ip + n/d brought to 0 <= n < d, lowest terms
Norm(ip, n, d) ==
    LET r == n % d
        g == GCD(r, d)
    IN  [ip |-> ip + (n \div d), n |-> r \div g, d |-> d \div g]

RInt(k) == [ip |-> k, n |-> 0, d |-> 1]

RAddInt(x, k) == [x EXCEPT !.ip = @ + k]

\* x * c, c a positive integer
RMulInt(x, c) ==
    LET g == GCD(c, x.d)
    IN  Norm(x.ip * c, x.n * (c \div g), x.d \div g)

\* x / c, c a positive integer
RDivInt(x, c) == Norm(x.ip \div c, (x.ip % c) * x.d + x.n, c * x.d)

\* x * a / b
RMulRat(x, a, b) ==
    LET g == GCD(a, b)
    IN  RDivInt(RMulInt(x, a \div g), b \div g)

\* x % c for x >= 0 (Python's float modulo on a non-negative value)
RMod(x, c) == [x EXCEPT !.ip = @ % c]

\* int(x) for x >= 0
RFloor(x) == x.ip

RIsZero(x) == x.ip = 0 /\ x.n = 0

\* Where the exact value of a computation lies half way between two
\* decimals, the binary float lies just above (TRUE) or just below (FALSE)
\* the half, and the rounding follows it.
VARIABLE tieUp

\* nearest integer; an exact half goes to the side tieUp tells
RoundNearest(x) ==
    IF 2 * x.n > x.d THEN x.ip + 1
    ELSE IF 2 * x.n = x.d /\ tieUp THEN x.ip + 1
    ELSE x.ip

(***************************************************************************)
(* format_sexagesimal and its callers.                                     *)
(***************************************************************************)
\* '{:0<width>.<precision>f}'.format(x) for x >= 0
FormatFixed(x, width, precision) ==
    LET k    == RoundNearest(RMulInt(x, Pow10(precision)))
        ipart == NatStr(k \div Pow10(precision))
        fpart == ZeroPad(NatStr(k % Pow10(precision)), precision)
        body == IF precision > 0 THEN ipart \o <<".">> \o fpart ELSE ipart
    IN  ZeroPad(body, width)

\* width of the seconds field in the format string
SecondsWidth(precision) == 6

\* variant of NormalizeSep that doubles the first character of a
\* 2-character separator too
NormalizeSep_First(sep) == IF Len(sep) <= 2 THEN <<sep[1], sep[1]>> ELSE sep

\* sep after "if len(sep) == 1: sep = sep * 2"
NormalizeSep(sep) == IF Len(sep) = 1 THEN sep \o sep ELSE sep

\* variant of Sig with deg >= 0 for deg > 0
Sig_NonNegative(deg) == IF ~deg.neg THEN 1 ELSE -1

\* sig = 1 if deg > 0 else -1
Sig(deg) == IF ~deg.neg /\ ~RIsZero(deg.mag) THEN 1 ELSE -1

\* h = sig * multiplier * deg for a multiplier mnum/mden > 0: |deg| * multiplier
HourValue(deg, multiplier) == RMulRat(deg.mag, multiplier[1], multiplier[2])

format_sexagesimal(deg, multiplier, sign, sep, precision) ==
    LET sp  == NormalizeSep(sep)
        sig == Sig(deg)
        h   == HourValue(deg, multiplier)
        m   == RMod(RMulInt(h, 60), 60)
        s   == RMod(RMulInt(m, 60), 60)
    IN  (IF sign THEN (IF sig > 0 THEN <<"+">> ELSE <<"-">>) ELSE <<>>)
        \o ZeroPad(NatStr(RFloor(h)), 2)
        \o <<sp[1]>>
        \o ZeroPad(NatStr(RFloor(m)), 2)
        \o <<sp[2]>>
        \o FormatFixed(s, SecondsWidth(precision), precision)
        \o (IF Len(sp) = 3 THEN <<sp[3]>> ELSE <<>>)

HourAngleMultiplier == <<24, 360>>

DegreeMultiplier == <<1, 1>>

to_hourangle_sexagesimal(deg, sep, sign, precision) ==
    format_sexagesimal(deg, HourAngleMultiplier, sign, sep, precision)

to_degminsec_sexagesimal(deg, sep, sign, precision) ==
    format_sexagesimal(deg, DegreeMultiplier, sign, sep, precision)

ra_to_sexagesimal(deg, sep, precision) ==
    to_hourangle_sexagesimal(deg, sep, FALSE, precision)

dec_to_sexagesimal(deg, sep, precision) ==
    to_degminsec_sexagesimal(deg, sep, TRUE, precision)

(***************************************************************************)
(* float(): the plain real numbers over the characters of the model        *)
(* (surrounding spaces, a sign, digits with at most one dot).              *)
(***************************************************************************)
RECURSIVE LStrip(_)
LStrip(s) == IF s # <<>> /\ s[1] = " " THEN LStrip(Tail(s)) ELSE s

RECURSIVE RStrip(_)
RStrip(s) == IF s # <<>> /\ s[Len(s)] = " "
             THEN RStrip(SubSeq(s, 1, Len(s) - 1)) ELSE s

IsSignChar(c) == c = "+" \/ c = "-"

\* float(s): [ok |-> FALSE] is the ValueError, else the value read
ParseFloat(s) ==
    LET t    == RStrip(LStrip(s))
        sl   == IF t # <<>> /\ IsSignChar(t[1]) THEN 1 ELSE 0
        u    == SubSeq(t, sl + 1, Len(t))
        dots == {i \in 1..Len(u) : u[i] = "."}
        dot  == IF dots = {} THEN Len(u) + 1 ELSE CHOOSE i \in dots : TRUE
        ipart == SubSeq(u, 1, dot - 1)
        fpart == SubSeq(u, dot + 1, Len(u))
    IN  IF /\ Cardinality(dots) <= 1
           /\ \A i \in 1..Len(u) : i \in dots \/ IsDigit(u[i])
           /\ Len(ipart) + Len(fpart) >= 1
        THEN [ok |-> TRUE,
              neg |-> (sl = 1 /\ t[1] = "-"),
              mag |-> Norm(NatVal(ipart), NatVal(fpart), Pow10(Len(fpart)))]
        ELSE [ok |-> FALSE]

(***************************************************************************)
(* _sexagesimal_parser and parse_sexagesimal.                              *)
(***************************************************************************)
\* [ :\-hH]
IsSep0(c) == c \in {" ", ":", "-", "h", "H"}

\* [ :\-mM]
IsSep1(c) == c \in {" ", ":", "-", "m", "M"}

DigitAt(s, p) == p >= 1 /\ p <= Len(s) /\ IsDigit(s[p])

\* the ways the three quantified groups before C can be taken, in the order
\* the regex engine tries them: (sign)? taken before skipped, \d\d? two digits
\* before one
Attempts ==
    << <<1, 2, 2>>, <<1, 2, 1>>, <<1, 1, 2>>, <<1, 1, 1>>,
       <<0, 2, 2>>, <<0, 2, 1>>, <<0, 1, 2>>, <<0, 1, 1>> >>

\* the pattern matches at the start of s with the sign group sl characters
\* long, A la digits and B lb digits
Feasible(s, sl, la, lb) ==
    /\ sl = 1 => (Len(s) >= 1 /\ IsSignChar(s[1]))
    /\ \A i \in 1..la : DigitAt(s, sl + i)
    /\ sl + la + 1 <= Len(s) /\ IsSep0(s[sl + la + 1])
    /\ \A i \in 1..lb : DigitAt(s, sl + la + 1 + i)
    /\ sl + la + lb + 2 <= Len(s) /\ IsSep1(s[sl + la + lb + 2])
    /\ DigitAt(s, sl + la + lb + 3)

RECURSIVE DigitRun(_, _)
\* length of the run of digits of s from position p on
DigitRun(s, p) == IF DigitAt(s, p) THEN 1 + DigitRun(s, p + 1) ELSE 0

\* variant of GroupC that stops before the fraction: \d\d?
GroupC_NoFraction(s, p) ==
    SubSeq(s, p, p + (IF DigitAt(s, p + 1) THEN 2 ELSE 1) - 1)

\* group C from position p: \d\d?(?:\.\d*)?, greedy
GroupC(s, p) ==
    LET li == IF DigitAt(s, p + 1) THEN 2 ELSE 1
        q  == p + li
        lf == IF q <= Len(s) /\ s[q] = "." THEN 1 + DigitRun(s, q + 1) ELSE 0
    IN  SubSeq(s, p, q + lf - 1)

\* _sexagesimal_parser.match(s): the groups of the first attempt that
\* matches, or [ok |-> FALSE] for None
RegexMatch(s) ==
    LET hits == {i \in 1..Len(Attempts) :
                    Feasible(s, Attempts[i][1], Attempts[i][2], Attempts[i][3])}
    IN  IF hits = {} THEN [ok |-> FALSE]
        ELSE LET i  == CHOOSE j \in hits : \A k \in hits : j <= k
                 sl == Attempts[i][1]
                 la == Attempts[i][2]
                 lb == Attempts[i][3]
             IN  [ok |-> TRUE,
                  sign |-> SubSeq(s, 1, sl),
                  A |-> SubSeq(s, sl + 1, sl + la),
                  B |-> SubSeq(s, sl + la + 2, sl + la + lb + 1),
                  C |-> GroupC(s, sl + la + lb + 3)]

\* float(v['C']) of a matched group C
FloatOfC(c) == ParseFloat(c).mag

MsgTail ==
    <<" ", "c", "a", "n", " ", "n", "o", "t", " ", "b", "e", " ", "c", "o",
      "n", "v", "e", "r", "t", "e", "d", " ", "t", "o", " ", "d", "e", "c",
      "i", "m", "a", "l", " ", "r", "e", "p", "r", "e", "s", "e", "n", "t",
      "a", "t", "i", "o", "n">>

\* variant of parse_sexagesimal that uses fullmatch: the pattern has to
\* cover the whole string
parse_sexagesimal_fullmatch(sexagesimal) ==
    LET v == RegexMatch(sexagesimal)
    IN  IF ~v.ok \/ (Len(v.sign) + Len(v.A) + Len(v.B) + Len(v.C) + 2
                        # Len(sexagesimal))
        THEN [kind |-> "ValueError", message |-> sexagesimal \o MsgTail]
        ELSE [kind |-> "quadruple",
              sign |-> IF v.sign = <<"-">> THEN -1 ELSE 1,
              A |-> NatVal(v.A),
              B |-> NatVal(v.B),
              C |-> FloatOfC(v.C)]

\* the quadruple, or the ValueError raised
parse_sexagesimal(sexagesimal) ==
    LET v == RegexMatch(sexagesimal)
    IN  IF ~v.ok
        THEN [kind |-> "ValueError", message |-> sexagesimal \o MsgTail]
        ELSE [kind |-> "quadruple",
              sign |-> IF v.sign = <<"-">> THEN -1 ELSE 1,
              A |-> NatVal(v.A),
              B |-> NatVal(v.B),
              C |-> FloatOfC(v.C)]

(***************************************************************************)
(* hourangle_to_decimal_deg, deg_to_decimal_deg and their callers.         *)
(***************************************************************************)
\* round(val, 6) of the signed value: whole degrees and millionths
Round6(neg, mag) ==
    LET k == RoundNearest(RMulInt([ip |-> 0, n |-> mag.n, d |-> mag.d],
                                   Pow10(6)))
    IN  [kind |-> "value", neg |-> neg,
         ip |-> mag.ip + (k \div Pow10(6)), micro |-> k % Pow10(6)]

\* variant of SexagesimalValue with one division missing: ((s + m) / 60) + h
SexagesimalValue_Flat(q) == RAddInt(RDivInt(RAddInt(q.C, q.B), 60), q.A)

\* (((s / 60) + m) / 60) + h
SexagesimalValue(q) ==
    RAddInt(RDivInt(RAddInt(RDivInt(q.C, 60), q.B), 60), q.A)

\* x / 24 * 360
HoursToDegrees(x) == RMulRat(x, 360, 24)

\* variant of hourangle_to_decimal_deg that scales a bare decimal as well
hourangle_to_decimal_deg_scaled(hms) ==
    LET f == ParseFloat(hms)
    IN  IF f.ok THEN Round6(f.neg, HoursToDegrees(f.mag))
        ELSE LET q == parse_sexagesimal(hms)
             IN  IF q.kind = "ValueError" THEN q
                 ELSE Round6(q.sign < 0, HoursToDegrees(SexagesimalValue(q)))

hourangle_to_decimal_deg(hms) ==
    LET f == ParseFloat(hms)
    IN  IF f.ok THEN Round6(f.neg, f.mag)
        ELSE LET q == parse_sexagesimal(hms)
             IN  IF q.kind = "ValueError" THEN q
                 ELSE Round6(q.sign < 0, HoursToDegrees(SexagesimalValue(q)))

deg_to_decimal_deg(dms) ==
    LET f == ParseFloat(dms)
    IN  IF f.ok THEN Round6(f.neg, f.mag)
        ELSE LET q == parse_sexagesimal(dms)
             IN  IF q.kind = "ValueError" THEN q
                 ELSE Round6(q.sign < 0, SexagesimalValue(q))

ra_to_decimal(hms) == hourangle_to_decimal_deg(hms)

dec_to_decimal(dms) == deg_to_decimal_deg(dms)

(***************************************************************************)
(* The calls: the arguments a caller passes, the function called, the      *)
(* string produced or parsed, and what the two parsing functions returned. *)
(***************************************************************************)
VARIABLES
    pc,         \* "format": a formatter is about to be called with args;
                \* "parse": hms holds the string handed to the parsers;
                \* "assemble", "assembled": save_fits_from_array's header loop
    args,       \* [deg, sep, precision, sign] of the formatter call
    fn,         \* the formatter that was called, its multiplier and sign flag
    hms,        \* the sexagesimal or decimal string
    raResult,   \* what ra_to_decimal(hms) returned or raised
    decResult,  \* what dec_to_decimal(hms) returned or raised
    header,     \* save_fits_from_array's header argument
    todo,       \* keys of header the loop has still to visit
    hdr         \* the fits.Header under construction: key -> [value, comment]

vars == <<pc, args, fn, hms, raResult, decResult, header, todo, hdr, tieUp>>

None == [kind |-> "none"]

NoArgs == [deg |-> [neg |-> FALSE, mag |-> RInt(0)], sep |-> <<":">>,
           precision |-> 3, sign |-> FALSE]

NoFn == [name |-> "none", multiplier |-> <<1, 1>>, sign |-> FALSE]

\* ---- inputs of the parsing functions ----
Alphabet == {"-", "1", "6", ":", ".", "x"}

ExhaustiveStrings == UNION {[1..n -> Alphabet] : n \in 0..MaxLen}

TemplateStrings ==
    {sg \o a \o <<s0>> \o b \o <<s1>> \o c \o tl :
        sg \in {<<>>, <<"+">>, <<"-">>},
        a  \in {<<"0">>, <<"1", "2">>, <<"4", "5">>, <<"1", "2", "3">>},
        s0 \in {":", " ", "-", "h", "H", "m"},
        b  \in {<<"0", "0">>, <<"3", "0">>, <<"6", "0">>, <<"9", "9">>,
                <<"7">>},
        s1 \in {":", " ", "m", "M", "h"},
        c  \in {<<"0", "0">>, <<"6", "0">>, <<"5", "9", ".", "9">>,
                <<"9", "9", ".", "9", "9">>, <<"5", ".">>,
                <<"3", "0", ".", "2", "5">>, <<"0", "7", "5">>},
        tl \in {<<>>, <<"x", "y">>}}

FracTails(k) == UNION {[1..n -> {"5", "9"}] : n \in 0..k}
FracStrings == FracTails(MaxFrac) \cup
               {<<"0">> \o f : f \in FracTails(MaxFrac - 1)}

DecimalStrings ==
    {pre \o sg \o ip \o dot \o f \o post :
        pre \in {<<>>},
        sg  \in {<<>>, <<"-">>},
        ip  \in {<<>>, <<"0">>, <<"4", "5">>},
        dot \in {<<".">>},
        f   \in FracStrings,
        post \in {<<>>}}
    \cup
    {pre \o sg \o ip \o post :
        pre \in {<<>>, <<" ">>},
        sg  \in {<<>>, <<"+">>, <<"-">>},
        ip  \in {<<"0">>, <<"4", "5">>, <<"4", "5", ".", "5">>,
                 <<"1", "8", "0">>},
        post \in {<<>>, <<" ">>}}

ParseInputs == ExhaustiveStrings \cup TemplateStrings \cup DecimalStrings

\* ---- inputs of the formatting functions ----
\* D + M/60 + (S + (milli + q/SubMilli)/1000)/3600 degrees
GridValue(D, M, S, milli, q) ==
    Norm(D, ((M * 60 + S) * 1000 + milli) * SubMilli + q,
         3600 * 1000 * SubMilli)

Signed(mag) == {[neg |-> b, mag |-> mag] : b \in {FALSE} \cup
                                               (IF RIsZero(mag) THEN {} ELSE {TRUE})}

GridAngles ==
    UNION {Signed(GridValue(D, M, S, milli, q)) :
        D \in {0, 1, 12, 14, 45, 89, 100, 359},
        M \in {0, 14, 30, 59},
        S \in {0, 59},
        milli \in {0, 500, 999},
        q \in 0..(SubMilli - 1)}

FewAngles ==
    UNION {Signed(GridValue(D, M, S, milli, q)) :
        D \in {0, 12, 100},
        M \in {0, 30, 59},
        S \in {0, 59},
        milli \in {0, 999},
        q \in {0, SubMilli - 1}}

Separators == {<<":">>, <<" ">>, <<"h", "m">>, <<"d", "m", "s">>}

FormatArgs ==
    {[deg |-> d, sep |-> <<":">>, precision |-> 3, sign |-> sg] :
        d \in GridAngles, sg \in BOOLEAN}
    \cup
    {[deg |-> d, sep |-> sp, precision |-> p, sign |-> sg] :
        d \in FewAngles, sp \in Separators, p \in 0..MaxPrecision,
        sg \in BOOLEAN}

Multipliers == {DegreeMultiplier, HourAngleMultiplier, <<2, 1>>}

\* ---- initial states ----
IdleFits == header = None /\ todo = <<>> /\ hdr = <<>>

InitParse ==
    /\ tieUp \in BOOLEAN
    /\ pc = "parse"
    /\ args = NoArgs
    /\ fn = NoFn
    /\ hms \in ParseInputs
    /\ raResult = None
    /\ decResult = None
    /\ IdleFits

InitFormat ==
    /\ tieUp \in BOOLEAN
    /\ pc = "format"
    /\ args \in FormatArgs
    /\ fn = NoFn
    /\ hms = <<>>
    /\ raResult = None
    /\ decResult = None
    /\ IdleFits

\* ---- the formatting calls ----
RaToSexagesimal ==
    /\ pc = "format"
    /\ pc' = "parse"
    /\ fn' = [name |-> "ra_to_sexagesimal", multiplier |-> HourAngleMultiplier,
              sign |-> FALSE]
    /\ hms' = ra_to_sexagesimal(args.deg, args.sep, args.precision)
    /\ UNCHANGED <<args, raResult, decResult, header, todo, hdr, tieUp>>

DecToSexagesimal ==
    /\ pc = "format"
    /\ pc' = "parse"
    /\ fn' = [name |-> "dec_to_sexagesimal", multiplier |-> DegreeMultiplier,
              sign |-> TRUE]
    /\ hms' = dec_to_sexagesimal(args.deg, args.sep, args.precision)
    /\ UNCHANGED <<args, raResult, decResult, header, todo, hdr, tieUp>>

ToHourangleSexagesimal ==
    /\ pc = "format"
    /\ pc' = "parse"
    /\ fn' = [name |-> "to_hourangle_sexagesimal",
              multiplier |-> HourAngleMultiplier, sign |-> args.sign]
    /\ hms' = to_hourangle_sexagesimal(args.deg, args.sep, args.sign,
                                       args.precision)
    /\ UNCHANGED <<args, raResult, decResult, header, todo, hdr, tieUp>>

ToDegminsecSexagesimal ==
    /\ pc = "format"
    /\ pc' = "parse"
    /\ fn' = [name |-> "to_degminsec_sexagesimal",
              multiplier |-> DegreeMultiplier, sign |-> args.sign]
    /\ hms' = to_degminsec_sexagesimal(args.deg, args.sep, args.sign,
                                       args.precision)
    /\ UNCHANGED <<args, raResult, decResult, header, todo, hdr, tieUp>>

FormatSexagesimal ==
    /\ pc = "format"
    /\ pc' = "parse"
    /\ \E multiplier \in Multipliers :
          /\ fn' = [name |-> "format_sexagesimal", multiplier |-> multiplier,
                    sign |-> args.sign]
          /\ hms' = format_sexagesimal(args.deg, multiplier, args.sign,
                                       args.sep, args.precision)
    /\ UNCHANGED <<args, raResult, decResult, header, todo, hdr, tieUp>>

\* ---- the parsing calls ----
RaToDecimal ==
    /\ pc = "parse"
    /\ raResult = None
    /\ raResult' = ra_to_decimal(hms)
    /\ UNCHANGED <<pc, args, fn, hms, decResult, header, todo, hdr, tieUp>>

DecToDecimal ==
    /\ pc = "parse"
    /\ decResult = None
    /\ decResult' = dec_to_decimal(hms)
    /\ UNCHANGED <<pc, args, fn, hms, raResult, header, todo, hdr, tieUp>>

NextParse == RaToDecimal \/ DecToDecimal

NextFormat ==
    \/ RaToSexagesimal
    \/ DecToSexagesimal
    \/ ToHourangleSexagesimal
    \/ ToDegminsecSexagesimal
    \/ FormatSexagesimal
    \/ RaToDecimal
    \/ DecToDecimal

SpecParse == InitParse /\ [][NextParse]_vars

SpecFormat == InitFormat /\ [][NextFormat]_vars

(***************************************************************************)
(* save_fits_from_array: the assembly of the fits.Header from the header   *)
(* argument.  Python values are tagged: a str, an int, a tuple.            *)
(***************************************************************************)
PyStr(chars) == [t |-> "str", chars |-> chars]

PyInt(n) == [t |-> "int", n |-> n]

PyTuple(items) == [t |-> "tuple", items |-> items]

\* v[i] in Python (i counted from 0): the item, or the exception raised
GetItem(v, i) ==
    CASE v.t = "tuple" ->
            IF i < Len(v.items) THEN [ok |-> TRUE, item |-> v.items[i + 1]]
            ELSE [ok |-> FALSE, exc |-> "IndexError"]
      [] v.t = "str" ->
            IF i < Len(v.chars) THEN [ok |-> TRUE, item |-> PyStr(<<v.chars[i + 1]>>)]
            ELSE [ok |-> FALSE, exc |-> "IndexError"]
      [] OTHER -> [ok |-> FALSE, exc |-> "TypeError"]

\* fits.Header()
EmptyHeader == [k \in {} |-> None]

NoComment == PyStr(<<>>)

\* hdr[n] = v
HdrSet(h, n, v) ==
    IF n \in DOMAIN h THEN [h EXCEPT ![n].value = v]
    ELSE [k \in DOMAIN h \cup {n} |->
             IF k = n THEN [value |-> v, comment |-> NoComment] ELSE h[k]]

\* hdr.comments[n] = c
HdrSetComment(h, n, c) == [h EXCEPT ![n].comment = c]

\* the body of "for n in header.keys()": the try block and its handler
AssembleEntry(h, n, v) ==
    LET v0 == GetItem(v, 0)
        h1 == HdrSet(h, n, v0.item)
        v1 == GetItem(v, 1)
    IN  IF ~v0.ok THEN HdrSet(h, n, v)
        ELSE IF ~v1.ok THEN HdrSet(h1, n, v)
        ELSE HdrSetComment(h1, n, v1.item)

NoHeaderText == <<"N", "o", " ", "f", "i", "t", "s", " ", "h", "e", "a", "d", "e", "r", " ", "p", "r", "o", "v", "i", "d", "e", "d">>

Keys == <<"FITS_STD", "TEL", "EXPTIME", "OBJECT">>

HeaderValues ==
    {PyStr(<<"b", "e", "t", "a", "_", "1">>), PyStr(<<"i", "r", "i", "s">>), PyStr(<<"x">>), PyStr(<<>>), PyInt(5),
     PyTuple(<<PyStr(<<"b", "e", "t", "a", "_", "1">>), PyStr(<<"s", "t", "d">>)>>),
     PyTuple(<<PyInt(5), PyStr(<<"[", "s", "]">>)>>)}

\* the header argument: a dict (its keys in order, its items), a fits.Header
\* (its cards) or anything else
HeaderArguments ==
    {[kind |-> "dict", keys |-> SubSeq(Keys, 1, n), items |-> f] :
        n \in {0}, f \in {EmptyHeader}}
    \cup
    UNION {{[kind |-> "dict", keys |-> SubSeq(Keys, 1, n), items |-> f] :
               f \in [{Keys[i] : i \in 1..n} -> HeaderValues]} : n \in 1..MaxKeys}
    \cup
    {[kind |-> "Header", keys |-> <<"TEL">>,
      items |-> [k \in {"TEL"} |-> [value |-> v, comment |-> PyStr(<<"t">>)]]] :
        v \in {PyStr(<<"i", "r", "i", "s">>), PyInt(5)}}
    \cup
    {[kind |-> "other", keys |-> <<>>, items |-> EmptyHeader]}

InitFits ==
    /\ tieUp = FALSE
    /\ pc = "header"
    /\ args = NoArgs
    /\ fn = NoFn
    /\ hms = <<>>
    /\ raResult = None
    /\ decResult = None
    /\ header \in HeaderArguments
    /\ todo = <<>>
    /\ hdr = EmptyHeader

\* isinstance(header, dict): the loop starts
BeginDict ==
    /\ pc = "header"
    /\ header.kind = "dict"
    /\ pc' = "loop"
    /\ todo' = header.keys
    /\ UNCHANGED <<args, fn, hms, raResult, decResult, header, hdr, tieUp>>

\* one turn of the loop
AssembleKey ==
    /\ pc = "loop"
    /\ todo # <<>>
    /\ hdr' = AssembleEntry(hdr, Head(todo), header.items[Head(todo)])
    /\ todo' = Tail(todo)
    /\ UNCHANGED <<pc, args, fn, hms, raResult, decResult, header, tieUp>>

\* the loop ends
EndLoop ==
    /\ pc = "loop"
    /\ todo = <<>>
    /\ pc' = "assembled"
    /\ UNCHANGED <<args, fn, hms, raResult, decResult, header, todo, hdr, tieUp>>

\* isinstance(header, fits.Header): hdr = header
UseHeader ==
    /\ pc = "header"
    /\ header.kind = "Header"
    /\ pc' = "assembled"
    /\ hdr' = header.items
    /\ UNCHANGED <<args, fn, hms, raResult, decResult, header, todo, tieUp>>

\* neither: hdr["OCASTD"] = "No fits header provided"
NoHeader ==
    /\ pc = "header"
    /\ header.kind = "other"
    /\ pc' = "assembled"
    /\ hdr' = HdrSet(hdr, "OCASTD", PyStr(NoHeaderText))
    /\ UNCHANGED <<args, fn, hms, raResult, decResult, header, todo, tieUp>>

NextFits == BeginDict \/ AssembleKey \/ EndLoop \/ UseHeader \/ NoHeader

SpecFits == InitFits /\ [][NextFits]_vars

(***************************************************************************)
(* Notions the properties are stated with.                                 *)
(***************************************************************************)
\* a returned decimal r is the non-negative real x rounded to 6 places:
\* r, in millionths, is within one half of x * 10^6
IsRounded6(r, x) ==
    LET f == RMulInt([ip |-> 0, n |-> x.n, d |-> x.d], Pow10(6))
        k == (r.ip - x.ip) * Pow10(6) + r.micro
    IN  \/ k = f.ip /\ 2 * f.n <= f.d
        \/ k = f.ip + 1 /\ 2 * f.n >= f.d

\* the returned decimal in signed millionths of a degree
Micro(r) == (IF r.neg THEN -1 ELSE 1) * (r.ip * Pow10(6) + r.micro)

\* floor and ceiling of deg * 10^6
FloorMicro(deg) ==
    LET x == RMulInt(deg.mag, Pow10(6))
    IN  IF deg.neg THEN -(x.ip + (IF x.n > 0 THEN 1 ELSE 0)) ELSE x.ip

CeilMicro(deg) ==
    LET x == RMulInt(deg.mag, Pow10(6))
    IN  IF deg.neg THEN -x.ip ELSE x.ip + (IF x.n > 0 THEN 1 ELSE 0)

\* |r - deg| <= 1e-3
WithinTolerance(r, deg) ==
    /\ Micro(r) - 1000 <= FloorMicro(deg)
    /\ CeilMicro(deg) <= Micro(r) + 1000

\* x <= k / 1000
LeqThousandths(x, k) ==
    LET y == RMulInt(x, 1000)
    IN  y.ip < k \/ (y.ip = k /\ y.n = 0)

\* |deg| <= 89.999
InDecDomain(deg) == LeqThousandths(deg.mag, 89999)

\* 0 <= deg <= 359.999
InRaDomain(deg) == ~deg.neg /\ LeqThousandths(deg.mag, 359999)

IsFieldChar(c) == IsDigit(c) \/ c = "."

RECURSIVE FieldRun(_, _)
FieldRun(s, p) ==
    IF p <= Len(s) /\ IsFieldChar(s[p]) THEN 1 + FieldRun(s, p + 1) ELSE 0

RECURSIVE Runs(_)
\* the maximal runs of digits and dots of a string: the numeric fields of a
\* formatted string whose separators are neither
Runs(s) ==
    IF s = <<>> THEN <<>>
    ELSE IF IsFieldChar(s[1])
         THEN LET n == FieldRun(s, 1)
              IN  <<SubSeq(s, 1, n)>> \o Runs(SubSeq(s, n + 1, Len(s)))
         ELSE Runs(Tail(s))

\* the digits of a field before its dot, and after it
IntDigits(f) == SubSeq(f, 1, DigitRun(f, 1))

FracDigits(f) == SubSeq(f, DigitRun(f, 1) + 2, Len(f))

\* t occurs in s
Contains(s, t) ==
    \E i \in 1..(Len(s) - Len(t) + 1) : SubSeq(s, i, i + Len(t) - 1) = t

\* a prefix of s is [sign] A{1,2} [ :-hH] B{1,2} [ :-mM] C{1,2}...
GrammarPrefix(s) ==
    \E sl \in 0..1, la \in 1..2, lb \in 1..2 :
        LET a  == SubSeq(s, sl + 1, sl + la)
            b  == SubSeq(s, sl + la + 2, sl + la + lb + 1)
            p0 == sl + la + 1
            p1 == sl + la + lb + 2
        IN  /\ Len(s) >= p1 + 1
            /\ sl = 1 => s[1] \in {"+", "-"}
            /\ \A i \in 1..la : IsDigit(a[i])
            /\ s[p0] \in {" ", ":", "-", "h", "H"}
            /\ \A i \in 1..lb : IsDigit(b[i])
            /\ s[p1] \in {" ", ":", "-", "m", "M"}
            /\ IsDigit(s[p1 + 1])

BareReal(s) == ParseFloat(s).ok

Results == {raResult, decResult} \ {None}

(***************************************************************************)
(* C1: round trip.  A declination d with |d| <= 89.999 formatted by        *)
(* dec_to_sexagesimal and a right ascension h in [0, 359.999] formatted by *)
(* ra_to_sexagesimal (separator ':', precision 3) are accepted by          *)
(* dec_to_decimal / ra_to_decimal and come back within 1e-3 of the input.  *)
(***************************************************************************)
C1_RoundTrip ==
    (pc = "parse" /\ args.sep = <<":">> /\ args.precision = 3) =>
        /\ (fn.name = "dec_to_sexagesimal" /\ InDecDomain(args.deg)
                /\ decResult # None)
             => (decResult.kind = "value"
                 /\ WithinTolerance(decResult, args.deg))
        /\ (fn.name = "ra_to_sexagesimal" /\ InRaDomain(args.deg)
                /\ raResult # None)
             => (raResult.kind = "value"
                 /\ WithinTolerance(raResult, args.deg))

\* a right ascension whose seconds rounded up to 60.000 has been parsed back
C1_Witness ==
    /\ pc = "parse"
    /\ fn.name = "ra_to_sexagesimal"
    /\ args.sep = <<":">> /\ args.precision = 3
    /\ InRaDomain(args.deg)
    /\ SubSeq(hms, 7, 12) = <<"6", "0", ".", "0", "0", "0">>
    /\ raResult # None /\ raResult.kind = "value"

(***************************************************************************)
(* C2: a string that is no bare real number and matches the grammar with   *)
(* fields (sign, A, B, C) gives sign * (A*3600 + B*60 + C) / 3600 rounded  *)
(* to 6 places from dec_to_decimal and 15 times that value, rounded to 6   *)
(* places, from ra_to_decimal; "12:00:00" gives 180.0 and "-45:30:00"      *)
(* gives -45.5.                                                            *)
(***************************************************************************)
TotalSeconds(q) == RAddInt(q.C, q.A * 3600 + q.B * 60)

C2_Conversion ==
    LET q == parse_sexagesimal(hms)
    IN  /\ (pc = "parse" /\ ~BareReal(hms) /\ q.kind = "quadruple") =>
            /\ decResult # None =>
                 /\ decResult.kind = "value"
                 /\ decResult.neg = (q.sign = -1)
                 /\ IsRounded6(decResult, RMulRat(TotalSeconds(q), 1, 3600))
            /\ raResult # None =>
                 /\ raResult.kind = "value"
                 /\ raResult.neg = (q.sign = -1)
                 /\ IsRounded6(raResult,
                               RDivInt(TotalSeconds(q), 240))
        /\ (hms = <<"1", "2", ":", "0", "0", ":", "0", "0">> /\ raResult # None) =>
              (raResult.kind = "value" /\ Micro(raResult) = 180000000)
        /\ (hms = <<"-", "4", "5", ":", "3", "0", ":", "0", "0">> /\ decResult # None) =>
              (decResult.kind = "value" /\ Micro(decResult) = -45500000)

C2_Witness ==
    /\ hms = <<"-", "4", "5", ":", "3", "0", ":", "0", "0">>
    /\ decResult # None /\ Micro(decResult) = -45500000
    /\ raResult # None /\ Micro(raResult) = -682500000

(***************************************************************************)
(* C3: for a string that is neither a bare real number nor has a prefix    *)
(* matching the grammar, ra_to_decimal and dec_to_decimal raise a          *)
(* ValueError whose message contains the string; a string that is no bare  *)
(* real number and has a prefix matching the grammar is converted,         *)
(* whatever follows the prefix.                                            *)
(***************************************************************************)
C3_ParseError ==
    (pc = "parse" /\ ~BareReal(hms)) =>
        \A r \in Results :
            IF GrammarPrefix(hms)
            THEN r.kind = "value"
            ELSE r.kind = "ValueError" /\ Contains(r.message, hms)

\* both functions have raised on a string that starts like a sexagesimal
\* angle, and its text is in both messages
C3_Witness ==
    /\ hms = <<"1", ":", "6", ":", "x">>
    /\ raResult # None /\ raResult.kind = "ValueError"
    /\ decResult # None /\ decResult.kind = "ValueError"
    /\ Contains(raResult.message, hms) /\ Contains(decResult.message, hms)

(***************************************************************************)
(* C8: bare decimal passthrough.  For a string that reads as a plain real  *)
(* number x, ra_to_decimal and dec_to_decimal both return x rounded to 6   *)
(* places, so they agree and no 360/24 scaling is applied; "45.5" gives    *)
(* 45.5 from both.                                                         *)
(***************************************************************************)
C8_BareDecimal ==
    (pc = "parse" /\ BareReal(hms)) =>
        /\ \A r \in Results :
              /\ r.kind = "value"
              /\ r.neg = ParseFloat(hms).neg
              /\ IsRounded6(r, ParseFloat(hms).mag)
        /\ (raResult # None /\ decResult # None) => raResult = decResult
        /\ hms = <<"4", "5", ".", "5">> =>
              \A r \in Results : r.ip = 45 /\ r.micro = 500000 /\ ~r.neg

\* both functions have returned 45.5 for "45.5"
C8_Witness ==
    /\ hms = <<"4", "5", ".", "5">>
    /\ raResult # None /\ decResult # None
    /\ raResult = decResult
    /\ Micro(raResult) = 45500000

(***************************************************************************)
(* C9: every quadruple (sign, A, B, C) parse_sexagesimal returns has sign  *)
(* -1 exactly when the string starts with '-' and +1 otherwise, A >= 0,    *)
(* B in [0, 59] and C in [0, 60): a string whose minutes or seconds field  *)
(* is outside these ranges yields no quadruple.                            *)
(***************************************************************************)
C9_QuadrupleRanges ==
    LET q == parse_sexagesimal(hms)
    IN  (pc = "parse" /\ Results # {} /\ q.kind = "quadruple") =>
            /\ q.sign = (IF hms[1] = "-" THEN -1 ELSE 1)
            /\ q.A >= 0
            /\ q.B >= 0 /\ q.B <= 59
            /\ q.C.ip < 60

(***************************************************************************)
(* C4: in every string the formatter produces, the minutes field and the   *)
(* seconds field both show a value below 60, also after the seconds are    *)
(* rounded to the precision.                                               *)
(***************************************************************************)
FormatterReturned == pc = "parse" /\ fn.name # "none"

C4_FieldsBelow60 ==
    FormatterReturned =>
        LET f == Runs(hms)
        IN  /\ Len(f) = 3
            /\ NatVal(IntDigits(f[2])) < 60
            /\ NatVal(IntDigits(f[3])) < 60

(***************************************************************************)
(* C5: the seconds field has two integer digits and exactly `precision`    *)
(* fractional digits, precision + 3 characters in all, and                 *)
(* format_sexagesimal(12.5, 1, sign=True, sep='dms', precision=1) is       *)
(* "+12d30m00.0s".                                                         *)
(***************************************************************************)
C5_SecondsWidth ==
    FormatterReturned =>
        LET sec == Runs(hms)[3]
        IN  /\ Len(sec) = args.precision + 3
            /\ Len(IntDigits(sec)) = 2
            /\ Len(FracDigits(sec)) = args.precision
            /\ (/\ fn.name = "format_sexagesimal"
                /\ fn.multiplier = <<1, 1>> /\ fn.sign
                /\ args.deg = [neg |-> FALSE, mag |-> Norm(12, 1, 2)]
                /\ args.sep = <<"d", "m", "s">> /\ args.precision = 1)
               => hms = <<"+", "1", "2", "d", "3", "0", "m", "0", "0", ".", "0", "s">>

(***************************************************************************)
(* C6: the separators.  The formatted string is the optional sign, AA, the *)
(* first separator, BB, the second separator, the seconds and the trailing *)
(* separator, and nothing else: a 1-character sep is used in both places   *)
(* with nothing after the seconds, a 2-character sep gives the two places  *)
(* in order with nothing after the seconds, a 3-character sep also puts    *)
(* its third character after the seconds.                                  *)
(***************************************************************************)
C6_Separators ==
    FormatterReturned =>
        LET f  == Runs(hms)
            sp == args.sep
            s0 == sp[1]
            s1 == IF Len(sp) = 1 THEN sp[1] ELSE sp[2]
            tl == IF Len(sp) = 3 THEN <<sp[3]>> ELSE <<>>
            sg == IF fn.sign THEN <<hms[1]>> ELSE <<>>
        IN  /\ Len(f) = 3
            /\ fn.sign => IsSignChar(hms[1])
            /\ hms = sg \o f[1] \o <<s0>> \o f[2] \o <<s1>> \o f[3] \o tl

\* to_degminsec_sexagesimal(12.5, sep='dms', precision=1) has returned a
\* string with the three separators in their places
C6_Witness ==
    /\ FormatterReturned
    /\ fn.name = "to_degminsec_sexagesimal" /\ ~fn.sign
    /\ args.deg = [neg |-> FALSE, mag |-> Norm(12, 1, 2)]
    /\ args.sep = <<"d", "m", "s">> /\ args.precision = 1
    /\ hms[3] = "d" /\ hms[6] = "m" /\ hms[Len(hms)] = "s"

(***************************************************************************)
(* C7 (as amended): when the sign is shown the string starts with '+'      *)
(* exactly when the input is > 0 and with '-' otherwise, so 0 is formatted *)
(* with '-' (to_hourangle_sexagesimal(0.0, sign=True));                    *)
(* when it is not shown, no sign character is emitted and the digits are   *)
(* those of the absolute value.  ra_to_sexagesimal takes no sign argument  *)
(* and never shows a sign.                                                 *)
(***************************************************************************)
Positive(deg) == ~deg.neg /\ ~RIsZero(deg.mag)

C7_SignRule ==
    FormatterReturned =>
        /\ fn.sign => hms[1] = (IF Positive(args.deg) THEN "+" ELSE "-")
        /\ ~fn.sign =>
              /\ \A i \in 1..Len(hms) : ~IsSignChar(hms[i])
              /\ NatVal(Runs(hms)[1]) =
                    RFloor(RMulRat(args.deg.mag, fn.multiplier[1],
                                   fn.multiplier[2]))

C7_SignRuleAmended ==
    /\ C7_SignRule
    /\ (FormatterReturned /\ fn.name = "ra_to_sexagesimal") =>
          /\ ~fn.sign
          /\ IsDigit(hms[1])

\* to_hourangle_sexagesimal(0.0, sign=True) has returned a string that
\* starts with '-'
C7_Witness ==
    /\ FormatterReturned
    /\ fn.name = "to_hourangle_sexagesimal" /\ fn.sign
    /\ RIsZero(args.deg.mag)
    /\ hms[1] = "-"

\* C7 as stated: the sign rule, and ra_to_sexagesimal of 0.0 yields a
\* negative sign prefix
C7_Original ==
    /\ C7_SignRule
    /\ (FormatterReturned /\ fn.name = "ra_to_sexagesimal"
            /\ RIsZero(args.deg.mag))
         => hms[1] = "-"

(***************************************************************************)
(* C10: after the header dict is assembled, every key mapped to a (value,  *)
(* comment) pair is stored with that value and that comment, and every key *)
(* mapped to a bare value (a bare string included) is stored with the      *)
(* whole value and no comment.                                             *)
(***************************************************************************)
C10_HeaderStored ==
    (pc = "assembled" /\ header.kind = "dict") =>
        \A k \in DOMAIN header.items :
            LET v == header.items[k]
            IN  /\ k \in DOMAIN hdr
                /\ IF v.t = "tuple"
                   THEN hdr[k] = [value |-> v.items[1], comment |-> v.items[2]]
                   ELSE hdr[k] = [value |-> v, comment |-> NoComment]

====
